---- MODULE Spec2Model ----
(***************************************************************************)
(* A model of the DLHub SDK client (dlhub_sdk/client.py), its polling      *)
(* future (dlhub_sdk/utils/futures.py) and the servable description        *)
(* models exercised by the test-suite.                                     *)
(*                                                                         *)
(* Python values are modelled as tagged records so that None, strings and  *)
(* integers can be told apart; a string is the sequence of its characters, *)
(* so that concatenation and lexicographic comparison are computed, not    *)
(* assumed.                                                                *)
(***************************************************************************)
EXTENDS Integers, Sequences, FiniteSets, TLC

VARIABLES
    index,      \* the documents held by the remote search index
    call,       \* the client call whose outcome ret holds
    ret,        \* outcome of the call: a return value or a raised exception
    queries,    \* number of search queries executed by the call
    http,       \* the requests sent to the DLHub service so far, in order
    runCall,    \* the arguments of the last call of run
    runRet,     \* outcome of the last call of run
    disk,       \* the temporary files that exist on disk
    pubPc,      \* where the current call of publish_servable stands
    pubCall,    \* the model it was given and the zip_filename it got
    pubPending, \* the return value or exception leaving the try block
    pubRet,     \* outcome of the call once it has ended
    pubCount,   \* number of calls of publish_servable started
    py38,       \* whether the interpreter is Python 3.8 or later
    futState,   \* state of the DLHubFuture, "NONE" before it is constructed
    futOutcome, \* the result or exception the future holds
    task,       \* the remote task: its status and, once completed, its result
    checkerPc,  \* where _checker_thread stands
    pollPc,     \* where the thread running _ping_server stands
    pollStatus, \* the status block the last get_task_status returned
    caught,     \* number of GlobusAPIErrors _ping_server has caught
    stopRet,    \* outcome of the last call of stop
    desc,       \* the servable description model being built
    descRet     \* outcome of the last call on the description model

searchVars == <<index, call, ret, queries>>
runVars == <<runCall, runRet>>
publishVars == <<disk, pubPc, pubCall, pubPending, pubRet, pubCount>>
futureVars == <<py38, futState, futOutcome, task, checkerPc, pollPc, pollStatus, caught,
                stopRet>>
descVars == <<desc, descRet>>
vars == <<searchVars, http, runVars, publishVars, futureVars, descVars>>

----------------------------------------------------------------------------
(* Bounds of the model *)

\* largest publication date (version) of a published servable
MaxDate == 2

\* largest number of documents in the search index
MaxRecords == 4

\* largest number of documents in the index searched by search_by_servable
MaxSearchDocs == 2

\* largest number of requests sent to the DLHub service
MaxRequests == 2

\* largest number of calls of publish_servable
MaxPublishes == 3

\* largest number of status requests sent for the task of a future
MaxPolls == 2

\* mdf_toolbox.search_helper.SEARCH_LIMIT, scaled down to the model's size
SEARCH_LIMIT == 3

----------------------------------------------------------------------------
(* Python values *)

PyNone == [ty |-> "NoneType"]
PyStr(s) == [ty |-> "str", v |-> s]
PyInt(i) == [ty |-> "int", v |-> i]

\* Python truthiness, as used by `not x`
Truthy(x) ==
    CASE x.ty = "NoneType" -> FALSE
      [] x.ty = "str" -> x.v # <<>>
      [] x.ty = "int" -> x.v # 0

\* the characters of the model, in code-point order
CharOrder == <<"/", "a", "b", "c", "d", "e", "i", "n", "t">>

Ord(c) == CHOOSE i \in 1..Len(CharOrder) : CharOrder[i] = c

\* s < t on Python strings
RECURSIVE StrLess(_, _)
StrLess(s, t) ==
    IF t = <<>> THEN FALSE
    ELSE IF s = <<>> THEN TRUE
    ELSE IF Head(s) # Head(t) THEN Ord(Head(s)) < Ord(Head(t))
    ELSE StrLess(Tail(s), Tail(t))

----------------------------------------------------------------------------
(* The search index and the query helper *)

Owners == {<<"a">>, <<"a", "b">>}
Names == {<<"c">>, <<"b", "c">>}
Dates == 1..MaxDate

\* a servable document: r['dlhub']['owner'], ['name'], ['publication_date']
Documents == [owner : Owners, name : Names, publication_date : Dates]

\* r['dlhub']['shorthand_name']: owner/name
ShorthandName(r) == r.owner \o <<"/">> \o r.name

Indexes == {S \in SUBSET Documents : Cardinality(S) <= MaxRecords}

\* match_servable(servable_name, owner, publication_date): a falsy argument
\* adds no term to the query
MatchServable(docs, servable_name, owner, publication_date) ==
    {r \in docs :
        /\ Truthy(servable_name) => servable_name = PyStr(r.name)
        /\ Truthy(owner) => owner = PyStr(r.owner)
        /\ Truthy(publication_date) => publication_date = PyInt(r.publication_date)}

\* a < b on one sort field
FieldLess(field, a, b) ==
    CASE field = "dlhub.owner" -> StrLess(a.owner, b.owner)
      [] field = "dlhub.name" -> StrLess(a.name, b.name)
      [] field = "dlhub.publication_date" -> a.publication_date < b.publication_date

\* a may come before b under the sorts added with add_sort(field, ascending)
RECURSIVE MayPrecede(_, _, _)
MayPrecede(a, b, sorts) ==
    IF sorts = <<>> THEN TRUE
    ELSE LET field == Head(sorts)[1]
             ascending == Head(sorts)[2]
             lt == IF ascending THEN FieldLess(field, a, b) ELSE FieldLess(field, b, a)
             gt == IF ascending THEN FieldLess(field, b, a) ELSE FieldLess(field, a, b)
         IN  lt \/ (~gt /\ MayPrecede(a, b, Tail(sorts)))

\* the orders in which the index may return the matching documents: every
\* arrangement of them that respects the sorts
RECURSIVE Orderings(_, _)
Orderings(matches, sorts) ==
    IF matches = {} THEN {<<>>}
    ELSE UNION {{<<first>> \o rest : rest \in Orderings(matches \ {first}, sorts)} :
                first \in {m \in matches :
                              \A other \in matches \ {m} : MayPrecede(m, other, sorts)}}

Take(s, k) == IF Len(s) <= k THEN s ELSE SubSeq(s, 1, k)

\* .search(limit=limit): the possible result lists; limit None means SEARCH_LIMIT
SearchResults(matches, sorts, limit) ==
    LET k == IF limit = PyNone THEN SEARCH_LIMIT ELSE limit.v
    IN  {Take(s, k) : s \in Orderings(matches, sorts)}

----------------------------------------------------------------------------
(* Outcomes of a call *)

NoCall == [op |-> "idle", servable_name |-> PyNone, owner |-> PyNone, version |-> PyNone,
           only_latest |-> FALSE, limit |-> PyNone, info |-> FALSE]

NoRet == [kind |-> "none", exc |-> "", shape |-> "", docs |-> <<>>, total |-> 0]

Raise(e) == [kind |-> "raise", exc |-> e, shape |-> "", docs |-> <<>>, total |-> 0]

\* a returned list of documents
ReturnList(docs) == [kind |-> "return", exc |-> "", shape |-> "list", docs |-> docs, total |-> 0]

\* a returned (results, info) pair
ReturnPair(docs, total) ==
    [kind |-> "return", exc |-> "", shape |-> "pair", docs |-> docs, total |-> total]

\* a single returned document
ReturnDoc(doc) == [kind |-> "return", exc |-> "", shape |-> "doc", docs |-> <<doc>>, total |-> 0]

----------------------------------------------------------------------------
(* DLHubClient.get_servables *)

\* the loop over results keeping the first document of each shorthand name
RECURSIVE LatestOnlyLoop(_, _, _)
LatestOnlyLoop(results, names, output) ==
    IF results = <<>> THEN output
    ELSE LET r == Head(results)
             name == ShorthandName(r)
         IN  IF name \notin names
             THEN LatestOnlyLoop(Tail(results), names \cup {name}, Append(output, r))
             ELSE LatestOnlyLoop(Tail(results), names, output)

\* the sorts of the query, with publication_date ascending
GetServablesSortsAscending ==
    << <<"dlhub.owner", TRUE>>, <<"dlhub.name", FALSE>>,
       <<"dlhub.publication_date", TRUE>> >>

GetServablesSorts ==
    << <<"dlhub.owner", TRUE>>, <<"dlhub.name", FALSE>>,
       <<"dlhub.publication_date", FALSE>> >>

GetServablesOutcome(docs, results, only_latest_version) ==
    IF Cardinality(docs) > SEARCH_LIMIT THEN Raise("RuntimeError")
    ELSE IF only_latest_version THEN ReturnList(LatestOnlyLoop(results, {}, <<>>))
    ELSE ReturnList(results)

get_servables(only_latest_version) ==
    /\ call.op = "idle"
    /\ \E results \in SearchResults(index, GetServablesSorts, PyNone) :
          ret' = GetServablesOutcome(index, results, only_latest_version)
    /\ call' = [NoCall EXCEPT !.op = "get_servables", !.only_latest = only_latest_version]
    /\ queries' = queries + 1
    /\ UNCHANGED <<index, http, runVars, publishVars, futureVars, descVars>>

----------------------------------------------------------------------------
(* DLHubClient.describe_servable *)

\* the sort of the query, ascending
DescribeSortsAscending == << <<"dlhub.publication_date", TRUE>> >>

DescribeSorts == << <<"dlhub.publication_date", FALSE>> >>

DescribeOutcome(query, owner, name) ==
    IF Len(query) = 0 THEN Raise("AttributeError") ELSE ReturnDoc(query[1])

describe_servable(owner, name) ==
    /\ call.op = "idle"
    /\ \E query \in SearchResults(MatchServable(MatchServable(index, PyStr(name), PyNone, PyNone),
                                                PyNone, PyStr(owner), PyNone),
                                  DescribeSorts, PyInt(1)) :
          ret' = DescribeOutcome(query, owner, name)
    /\ call' = [NoCall EXCEPT !.op = "describe_servable",
                              !.owner = PyStr(owner), !.servable_name = PyStr(name)]
    /\ queries' = queries + 1
    /\ UNCHANGED <<index, http, runVars, publishVars, futureVars, descVars>>

----------------------------------------------------------------------------
(* DLHubClient.search_by_servable *)

\* latest_res.get(key, default) on a dict kept as its items in insertion order
DictHas(d, key) == \E i \in 1..Len(d) : d[i].key = key

\* latest_res[key] = value
DictSet(d, key, value) ==
    IF DictHas(d, key)
    THEN [i \in 1..Len(d) |-> IF d[i].key = key THEN [key |-> key, value |-> value] ELSE d[i]]
    ELSE Append(d, [key |-> key, value |-> value])

\* [r for r in latest_res.values()]
DictValues(d) == [i \in 1..Len(d) |-> d[i].value]

\* the string literal "ident" looked up in latest_res
IdentLiteral == <<"i", "d", "e", "n", "t">>

\* the loop over the result list: the resulting latest_res, or the TypeError
\* of comparing a stored document with a publication date
RECURSIVE LatestResLoop(_, _)
LatestResLoop(results, latest_res) ==
    IF results = <<>> THEN [err |-> FALSE, d |-> latest_res]
    ELSE LET res == Head(results)
             ident == res.owner \o res.name
         IN  IF DictHas(latest_res, IdentLiteral)
             THEN [err |-> TRUE, d |-> latest_res]
             ELSE IF -1 < res.publication_date
                  THEN LatestResLoop(Tail(results), DictSet(latest_res, ident, res))
                  ELSE LatestResLoop(Tail(results), latest_res)

\* the check of the arguments with `or` in place of `and`
MissingAnyArgument(servable_name, owner, version) ==
    ~Truthy(servable_name) \/ ~Truthy(owner) \/ ~Truthy(version)

\* not servable_name and not owner and not version
MissingArguments(servable_name, owner, version) ==
    ~Truthy(servable_name) /\ ~Truthy(owner) /\ ~Truthy(version)

\* what follows the search: results is the list, or the (list, info) tuple
SearchByServableOutcome(docs, total, only_latest, info) ==
    IF only_latest
    THEN IF info
         THEN \* for res in results yields the list itself; res["dlhub"] fails
              Raise("TypeError")
         ELSE LET loop == LatestResLoop(docs, <<>>)
              IN  IF loop.err THEN Raise("TypeError") ELSE ReturnList(DictValues(loop.d))
    ELSE IF info THEN ReturnPair(docs, total) ELSE ReturnList(docs)

search_by_servable(servable_name, owner, version, only_latest, limit, info) ==
    /\ call.op = "idle"
    /\ call' = [op |-> "search_by_servable", servable_name |-> servable_name,
                owner |-> owner, version |-> version, only_latest |-> only_latest,
                limit |-> limit, info |-> info]
    /\ IF MissingArguments(servable_name, owner, version)
       THEN /\ ret' = Raise("ValueError")
            /\ UNCHANGED queries
       ELSE LET matches == MatchServable(index, servable_name, owner, version)
            IN  /\ \E docs \in SearchResults(matches, <<>>, limit) :
                      ret' = SearchByServableOutcome(docs, Cardinality(matches),
                                                     only_latest, info)
                /\ queries' = queries + 1
    /\ UNCHANGED <<index, http, runVars, publishVars, futureVars, descVars>>

NameArgs == {PyNone, PyStr(<<>>), PyStr(<<"c">>)}
OwnerArgs == {PyNone, PyStr(<<>>), PyStr(<<"a">>)}
VersionArgs == {PyNone, PyInt(0)} \cup {PyInt(d) : d \in Dates}
LimitArgs == {PyNone, PyInt(1)}

----------------------------------------------------------------------------
(* DLHubClient.run *)

ServableNames == {<<"a", "/", "c">>, <<"a", "b", "/", "c">>}
RunInputs == {PyInt(1), PyStr(<<"a">>)}
InputTypes == {"python", "json", "files", "xml"}

\* what the service answers to a POST: a status and, with it, a body
Responses == [http_status : {200, 202, 500}, data : {PyInt(0), PyStr(<<"c">>)}]

NoRunCall == [name |-> <<>>, inputs |-> PyNone, input_type |-> "", sent_before |-> 0]

NoRunRet == [kind |-> "none", exc |-> "", data |-> PyNone]

RunRaise(e) == [kind |-> "raise", exc |-> e, data |-> PyNone]

RunReturn(d) == [kind |-> "return", exc |-> "", data |-> d]

\* servable_path = 'servables/{name}/run'
ServablePath(name) == <<"servables", name, "run">>

\* jsonpickle.encode(inputs)
JsonPickle(inputs) == [encoding |-> "jsonpickle", of |-> inputs]

\* the preparation of the data with "files" sent like "json"
RunDataFilesSent(inputs, input_type) ==
    CASE input_type = "python" -> [exc |-> "", key |-> "python", value |-> JsonPickle(inputs)]
      [] input_type \in {"json", "files"} ->
            [exc |-> "", key |-> "data", value |-> [encoding |-> "json", of |-> inputs]]
      [] OTHER -> [exc |-> "ValueError", key |-> "", value |-> [encoding |-> "", of |-> inputs]]

\* the data to be sent, or the exception raised while preparing it
RunData(inputs, input_type) ==
    CASE input_type = "python" -> [exc |-> "", key |-> "python", value |-> JsonPickle(inputs)]
      [] input_type = "json" ->
            [exc |-> "", key |-> "data", value |-> [encoding |-> "json", of |-> inputs]]
      [] input_type = "files" ->
            [exc |-> "NotImplementedError", key |-> "", value |-> [encoding |-> "", of |-> inputs]]
      [] OTHER -> [exc |-> "ValueError", key |-> "", value |-> [encoding |-> "", of |-> inputs]]

\* self.post raises GlobusAPIError unless the status is 2xx; run raises
\* Exception unless it is 200
RunReply(r) ==
    IF r.http_status >= 300 THEN RunRaise("GlobusAPIError")
    ELSE IF r.http_status # 200 THEN RunRaise("Exception")
    ELSE RunReturn(r.data)

run(name, inputs, input_type) ==
    /\ Len(http) < MaxRequests
    /\ runCall' = [name |-> name, inputs |-> inputs, input_type |-> input_type,
                   sent_before |-> Len(http)]
    /\ LET data == RunData(inputs, input_type)
       IN  IF data.exc # ""
           THEN /\ runRet' = RunRaise(data.exc)
                /\ UNCHANGED http
           ELSE /\ http' = Append(http, [method |-> "POST", path |-> ServablePath(name),
                                         key |-> data.key, value |-> data.value])
                /\ \E r \in Responses : runRet' = RunReply(r)
    /\ UNCHANGED <<searchVars, publishVars, futureVars, descVars>>

----------------------------------------------------------------------------
(* DLHubClient.publish_servable *)

\* the names mkstemp('.zip') may return
TmpNames == {"tmpa.zip", "tmpb.zip"}

\* a model to publish: whether its description is complete (to_dict succeeds)
\* and whether the description validates against the servable schema
Models == [complete : BOOLEAN, valid : BOOLEAN]

\* model.get_zip_file(zip_filename): the archive is written, or packaging
\* fails after or before the file has been created
ZipOutcomes == {"written", "failed_partial", "failed_nofile"}

\* requests.post(...): the reply's status code, or no reply at all
PostOutcomes == {"200", "500", "ConnectionError"}

NoPubCall == [complete |-> FALSE, valid |-> FALSE, zip_filename |-> "", sent_before |-> 0]

NoOutcome == [kind |-> "none", value |-> ""]

Raised(e) == [kind |-> "raise", value |-> e]

Returned_(v) == [kind |-> "return", value |-> v]

\* publish_servable without the call of validate_against_dlhub_schema
PublishWithoutValidate(model) ==
    /\ pubPc \in {"idle", "done"}
    /\ pubCount < MaxPublishes
    /\ pubCount' = pubCount + 1
    /\ pubCall' = [complete |-> model.complete, valid |-> model.valid, zip_filename |-> "",
                   sent_before |-> Len(http)]
    /\ pubPending' = NoOutcome
    /\ IF ~model.complete
       THEN pubPc' = "done" /\ pubRet' = Raised("ValueError")
       ELSE pubPc' = "validated" /\ pubRet' = NoOutcome
    /\ UNCHANGED <<disk, http, searchVars, runVars, futureVars, descVars>>

\* metadata = model.to_dict(simplify_paths=True);
\* validate_against_dlhub_schema(metadata, 'servable')
PublishValidate(model) ==
    /\ pubPc \in {"idle", "done"}
    /\ pubCount < MaxPublishes
    /\ pubCount' = pubCount + 1
    /\ pubCall' = [complete |-> model.complete, valid |-> model.valid, zip_filename |-> "",
                   sent_before |-> Len(http)]
    /\ pubPending' = NoOutcome
    /\ IF ~model.complete
       THEN pubPc' = "done" /\ pubRet' = Raised("ValueError")
       ELSE IF ~model.valid
            THEN pubPc' = "done" /\ pubRet' = Raised("ValidationError")
            ELSE pubPc' = "validated" /\ pubRet' = NoOutcome
    /\ UNCHANGED <<disk, http, searchVars, runVars, futureVars, descVars>>

\* fp, zip_filename = mkstemp('.zip'); os.close(fp)
PublishMkstemp ==
    /\ pubPc = "validated"
    /\ \E f \in TmpNames \ disk :
          /\ disk' = disk \cup {f}
          /\ pubCall' = [pubCall EXCEPT !.zip_filename = f]
    /\ pubPc' = "created"
    /\ UNCHANGED <<pubPending, pubRet, pubCount, http, searchVars, runVars, futureVars, descVars>>

\* os.unlink(zip_filename), before the try block
PublishUnlink ==
    /\ pubPc = "created"
    /\ disk' = disk \ {pubCall.zip_filename}
    /\ pubPc' = "try"
    /\ UNCHANGED <<pubCall, pubPending, pubRet, pubCount, http, searchVars, runVars, futureVars, descVars>>

\* model.get_zip_file(zip_filename)
PublishGetZipFile ==
    /\ pubPc = "try"
    /\ \E z \in ZipOutcomes :
          /\ disk' = IF z = "failed_nofile" THEN disk ELSE disk \cup {pubCall.zip_filename}
          /\ IF z = "written"
             THEN pubPc' = "zipped" /\ UNCHANGED pubPending
             ELSE pubPc' = "finally" /\ pubPending' = Raised("PackagingError")
    /\ UNCHANGED <<pubCall, pubRet, pubCount, http, searchVars, runVars, futureVars, descVars>>

\* with open(zip_filename, 'rb') as zf: reply = requests.post(...);
\* raise Exception(reply.text) unless the status is 200, else return the task id
PublishPost ==
    /\ pubPc = "zipped"
    /\ IF pubCall.zip_filename \notin disk
       THEN pubPending' = Raised("FileNotFoundError") /\ UNCHANGED http
       ELSE /\ http' = Append(http, [method |-> "POST", path |-> <<"publish">>,
                                     key |-> "json", value |-> [encoding |-> "json",
                                                                of |-> PyStr(<<>>)]])
            /\ \E o \in PostOutcomes :
                  pubPending' = CASE o = "200" -> Returned_("task_id")
                                  [] o = "500" -> Raised("Exception")
                                  [] OTHER -> Raised("ConnectionError")
    /\ pubPc' = "finally"
    /\ UNCHANGED <<disk, pubCall, pubRet, pubCount, searchVars, runVars, futureVars, descVars>>

\* the clean-up done on the successful path only, not in a finally block
PublishFinallyOnSuccess ==
    /\ pubPc = "finally"
    /\ IF pubPending.kind = "return"
       THEN /\ disk' = disk \ {pubCall.zip_filename}
            /\ pubRet' = pubPending
       ELSE /\ UNCHANGED disk
            /\ pubRet' = pubPending
    /\ pubPc' = "done"
    /\ UNCHANGED <<pubCall, pubPending, pubCount, http, searchVars, runVars, futureVars, descVars>>

\* finally: os.unlink(zip_filename), which raises when the file does not exist
PublishFinally ==
    /\ pubPc = "finally"
    /\ IF pubCall.zip_filename \in disk
       THEN /\ disk' = disk \ {pubCall.zip_filename}
            /\ pubRet' = pubPending
       ELSE /\ UNCHANGED disk
            /\ pubRet' = Raised("FileNotFoundError")
    /\ pubPc' = "done"
    /\ UNCHANGED <<pubCall, pubPending, pubCount, http, searchVars, runVars, futureVars, descVars>>

----------------------------------------------------------------------------
(* DLHubFuture *)

\* the results a completed task may carry
TaskResults == {"r1", "r2"}

NoTask == [status |-> "RUNNING", result |-> ""]

NoStatus == [task |-> "", result |-> ""]

\* the states of concurrent.futures.Future in which its outcome is set
FutureDone == {"CANCELLED", "CANCELLED_AND_NOTIFIED", "FINISHED"}

\* DLHubFuture.__init__: super().__init__() leaves the future PENDING, and the
\* checker thread, whose target is DLHubClient, is started
DLHubFutureInit ==
    /\ futState = "NONE"
    /\ futState' = "PENDING"
    /\ checkerPc' = "started"
    /\ UNCHANGED <<py38, caught, futOutcome, task, pollPc, pollStatus, stopRet>>
    /\ UNCHANGED <<searchVars, http, runVars, publishVars, descVars>>

\* the checker thread runs its target, DLHubClient(future): the constructor
\* logs in (search_client is None) and builds a client or raises; the thread
\* then ends without having called _ping_server
CheckerThreadRun ==
    /\ checkerPc = "started"
    /\ checkerPc' = "exited"
    /\ UNCHANGED <<py38, caught, futState, futOutcome, task, pollPc, pollStatus, stopRet>>
    /\ UNCHANGED <<searchVars, http, runVars, publishVars, descVars>>

\* the remote service completes the task
TaskCompletes ==
    /\ task.status = "RUNNING"
    /\ \E r \in TaskResults : task' = [status |-> "COMPLETED", result |-> r]
    /\ UNCHANGED <<py38, caught, futState, futOutcome, checkerPc, pollPc, pollStatus, stopRet>>
    /\ UNCHANGED <<searchVars, http, runVars, publishVars, descVars>>

\* Future.set_running_or_notify_cancel(), inherited: nothing in DLHubFuture
\* calls it, a caller may
set_running_or_notify_cancel ==
    /\ futState \in {"PENDING", "CANCELLED"}
    /\ futState' = IF futState = "PENDING" THEN "RUNNING" ELSE "CANCELLED_AND_NOTIFIED"
    /\ UNCHANGED <<py38, caught, futOutcome, task, checkerPc, pollPc, pollStatus, stopRet>>
    /\ UNCHANGED <<searchVars, http, runVars, publishVars, descVars>>

\* Future.cancel(), inherited: cancels a pending future
cancel ==
    /\ futState = "PENDING"
    /\ futState' = "CANCELLED"
    /\ UNCHANGED <<py38, caught, futOutcome, task, checkerPc, pollPc, pollStatus, stopRet>>
    /\ UNCHANGED <<searchVars, http, runVars, publishVars, descVars>>

\* a thread enters _ping_server (the checker thread never does)
PingServerCall ==
    /\ futState # "NONE"
    /\ pollPc = "none"
    /\ pollPc' = "sleep"
    /\ UNCHANGED <<py38, caught, futState, futOutcome, task, checkerPc, pollStatus, stopRet>>
    /\ UNCHANGED <<searchVars, http, runVars, publishVars, descVars>>

\* sleep(self.ping_interval)
PingSleep ==
    /\ pollPc = "sleep"
    /\ pollPc' = "running"
    /\ UNCHANGED <<py38, caught, futState, futOutcome, task, checkerPc, pollStatus, stopRet>>
    /\ UNCHANGED <<searchVars, http, runVars, publishVars, descVars>>

\* a running() that asks for the task status whatever the state of the future
RunningCheckSkipped ==
    /\ pollPc = "running"
    /\ pollPc' = "get_status"
    /\ UNCHANGED <<py38, caught, futState, futOutcome, task, checkerPc, pollStatus, stopRet>>
    /\ UNCHANGED <<searchVars, http, runVars, publishVars, descVars>>

\* running(): if super().running(); otherwise it returns None and the loop breaks
RunningCheck ==
    /\ pollPc = "running"
    /\ pollPc' = IF futState = "RUNNING" THEN "get_status" ELSE "returned"
    /\ UNCHANGED <<py38, caught, futState, futOutcome, task, checkerPc, pollStatus, stopRet>>
    /\ UNCHANGED <<searchVars, http, runVars, publishVars, descVars>>

\* status = self.client.get_task_status(self.task_id): the status block, or a
\* GlobusAPIError, which leaves running() for the try block of _ping_server
RunningGetStatus ==
    /\ pollPc = "get_status"
    /\ Len(http) < MaxPolls
    /\ http' = Append(http, [method |-> "GET", path |-> <<"task_id", "status">>,
                             key |-> "", value |-> [encoding |-> "", of |-> PyNone]])
    /\ \/ /\ pollStatus' = [task |-> task.status, result |-> task.result]
          /\ pollPc' = "check_status"
       \/ /\ pollPc' = "except"
          /\ UNCHANGED pollStatus
    /\ UNCHANGED <<py38, caught, futState, futOutcome, task, checkerPc, stopRet>>
    /\ UNCHANGED <<searchVars, runVars, publishVars, descVars>>

\* an except clause that lets the GlobusAPIError end the thread
PingExceptPropagates ==
    /\ pollPc = "except"
    /\ pollPc' = "raised"
    /\ caught' = caught + 1
    /\ UNCHANGED <<py38, futState, futOutcome, task, checkerPc, pollStatus, stopRet>>
    /\ UNCHANGED <<searchVars, http, runVars, publishVars, descVars>>

\* except GlobusAPIError: continue, which goes back to sleep(self.ping_interval)
PingExcept ==
    /\ pollPc = "except"
    /\ pollPc' = "sleep"
    /\ caught' = caught + 1
    /\ UNCHANGED <<py38, futState, futOutcome, task, checkerPc, pollStatus, stopRet>>
    /\ UNCHANGED <<searchVars, http, runVars, publishVars, descVars>>

\* if status['task'] == 'COMPLETED': self.set_result(status['result']); return False
\* otherwise return True. Since Python 3.8 set_result raises InvalidStateError
\* on a future that is already done; before, it replaces the outcome.
RunningSetResult ==
    /\ pollPc = "check_status"
    /\ IF pollStatus.task # "COMPLETED"
       THEN pollPc' = "sleep" /\ UNCHANGED <<futState, futOutcome>>
       ELSE IF py38 /\ futState \in FutureDone
            THEN pollPc' = "raised" /\ UNCHANGED <<futState, futOutcome>>
            ELSE /\ futState' = "FINISHED"
                 /\ futOutcome' = Returned_(pollStatus.result)
                 /\ pollPc' = "returned"
    /\ UNCHANGED <<py38, caught, task, checkerPc, pollStatus, stopRet>>
    /\ UNCHANGED <<searchVars, http, runVars, publishVars, descVars>>

\* a stop() that also cancels the remote task
stopCancelsTask ==
    /\ futState # "NONE"
    /\ IF py38 /\ futState \in FutureDone
       THEN stopRet' = Raised("InvalidStateError") /\ UNCHANGED <<futState, futOutcome>>
       ELSE /\ futState' = "FINISHED"
            /\ futOutcome' = Raised("Cancelled by user")
            /\ stopRet' = Returned_("None")
    /\ task' = [status |-> "CANCELLED", result |-> ""]
    /\ UNCHANGED <<py38, caught, checkerPc, pollPc, pollStatus>>
    /\ UNCHANGED <<searchVars, http, runVars, publishVars, descVars>>

\* stop(): self.set_exception(Exception('Cancelled by user'))
stop ==
    /\ futState # "NONE"
    /\ IF py38 /\ futState \in FutureDone
       THEN stopRet' = Raised("InvalidStateError") /\ UNCHANGED <<futState, futOutcome>>
       ELSE /\ futState' = "FINISHED"
            /\ futOutcome' = Raised("Cancelled by user")
            /\ stopRet' = Returned_("None")
    /\ UNCHANGED <<py38, caught, task, checkerPc, pollPc, pollStatus>>
    /\ UNCHANGED <<searchVars, http, runVars, publishVars, descVars>>

----------------------------------------------------------------------------
(* Servable description models *)

ModelKinds == {"PythonClassMethodModel", "PythonStaticMethodModel", "KerasModel"}

\* the data types given to set_inputs and set_outputs
InputArgTypes == {"ndarray", "tuple", "list"}
OutputArgTypes == {"ndarray", "float"}

Packages == {"numpy", "scikit-learn", "keras", "h5py"}

\* a model not yet created
NoDesc == [kind |-> "", title |-> "", name |-> "", input |-> "", output |-> "",
           requirements |-> [p \in Packages |-> ""], unpack |-> FALSE,
           set_inputs_called |-> FALSE, set_outputs_called |-> FALSE]

NoDescRet == [op |-> "", kind |-> "none", exc |-> "", before |-> NoDesc]

DescReturn(op) == [op |-> op, kind |-> "return", exc |-> "", before |-> desc]

DescRaise(op, e) == [op |-> op, kind |-> "raise", exc |-> e, before |-> desc]

\* _format_layer_spec: one tensor for a tuple shape, a list of tensors otherwise
FormatLayerSpec(layers) == IF layers = "tuple" THEN "ndarray" ELSE "list"

\* KerasModel.create_model leaving input and output unset
KerasCreateModelNoTypes(input_shape, output_shape) ==
    [NoDesc EXCEPT !.kind = "KerasModel",
                   !.requirements = [p \in Packages |->
                        CASE p = "keras" -> "keras_version"
                          [] p = "h5py" -> "detect"
                          [] OTHER -> ""]]

\* KerasModel.create_model: input and output are read from the loaded model,
\* keras and h5py are added as requirements
KerasCreateModel(input_shape, output_shape) ==
    [NoDesc EXCEPT !.kind = "KerasModel",
                   !.input = FormatLayerSpec(input_shape),
                   !.output = FormatLayerSpec(output_shape),
                   !.requirements = [p \in Packages |->
                        CASE p = "keras" -> "keras_version"
                          [] p = "h5py" -> "detect"
                          [] OTHER -> ""]]

\* PythonClassMethodModel.create_model / PythonStaticMethodModel.from_function_pointer
create_model(kind) ==
    /\ desc = NoDesc
    /\ kind # "KerasModel"
    /\ desc' = [NoDesc EXCEPT !.kind = kind]
    /\ descRet' = DescReturn("create_model")
    /\ UNCHANGED <<searchVars, http, runVars, publishVars, futureVars>>

keras_create_model(input_shape, output_shape) ==
    /\ desc = NoDesc
    /\ desc' = KerasCreateModel(input_shape, output_shape)
    /\ descRet' = DescReturn("create_model")
    /\ UNCHANGED <<searchVars, http, runVars, publishVars, futureVars>>

set_title(title) ==
    /\ desc # NoDesc
    /\ desc' = [desc EXCEPT !.title = title]
    /\ descRet' = DescReturn("set_title")
    /\ UNCHANGED <<searchVars, http, runVars, publishVars, futureVars>>

set_name(name) ==
    /\ desc # NoDesc
    /\ desc' = [desc EXCEPT !.name = name]
    /\ descRet' = DescReturn("set_name")
    /\ UNCHANGED <<searchVars, http, runVars, publishVars, futureVars>>

add_requirement(package, version) ==
    /\ desc # NoDesc
    /\ desc' = [desc EXCEPT !.requirements[package] = version]
    /\ descRet' = DescReturn("add_requirement")
    /\ UNCHANGED <<searchVars, http, runVars, publishVars, futureVars>>

set_inputs(data_type) ==
    /\ desc # NoDesc
    /\ desc' = [desc EXCEPT !.input = data_type, !.set_inputs_called = TRUE]
    /\ descRet' = DescReturn("set_inputs")
    /\ UNCHANGED <<searchVars, http, runVars, publishVars, futureVars>>

set_outputs(data_type) ==
    /\ desc # NoDesc
    /\ desc' = [desc EXCEPT !.output = data_type, !.set_outputs_called = TRUE]
    /\ descRet' = DescReturn("set_outputs")
    /\ UNCHANGED <<searchVars, http, runVars, publishVars, futureVars>>

\* set_unpack_inputs(True) accepting every declared input type
set_unpack_inputs_unchecked ==
    /\ desc # NoDesc
    /\ desc.input # ""
    /\ desc' = [desc EXCEPT !.unpack = TRUE]
    /\ descRet' = DescReturn("set_unpack_inputs")
    /\ UNCHANGED <<searchVars, http, runVars, publishVars, futureVars>>

\* set_unpack_inputs(True), called once the input type is declared
set_unpack_inputs ==
    /\ desc # NoDesc
    /\ desc.input # ""
    /\ IF desc.input = "tuple"
       THEN /\ desc' = [desc EXCEPT !.unpack = TRUE]
            /\ descRet' = DescReturn("set_unpack_inputs")
       ELSE /\ UNCHANGED desc
            /\ descRet' = DescRaise("set_unpack_inputs", "ValueError")
    /\ UNCHANGED <<searchVars, http, runVars, publishVars, futureVars>>

\* to_dict(): fails until the input and the output are set
to_dict ==
    /\ desc # NoDesc
    /\ descRet' = IF desc.input = "" \/ desc.output = ""
                  THEN DescRaise("to_dict", "ValueError")
                  ELSE DescReturn("to_dict")
    /\ UNCHANGED desc
    /\ UNCHANGED <<searchVars, http, runVars, publishVars, futureVars>>

----------------------------------------------------------------------------
(* Specifications *)

IdleSearch == index = {} /\ call = NoCall /\ ret = NoRet /\ queries = 0

IdleRun == runCall = NoRunCall /\ runRet = NoRunRet

IdlePublish ==
    /\ disk = {} /\ pubPc = "idle" /\ pubCall = NoPubCall
    /\ pubPending = NoOutcome /\ pubRet = NoOutcome /\ pubCount = 0

IdleFuture ==
    /\ py38 = FALSE /\ futState = "NONE" /\ futOutcome = NoOutcome /\ task = NoTask
    /\ checkerPc = "none" /\ pollPc = "none" /\ pollStatus = NoStatus
    /\ stopRet = NoOutcome /\ caught = 0

IdleDesc == desc = NoDesc /\ descRet = NoDescRet

\* get_servables and describe_servable against any index
InitServables ==
    /\ index \in Indexes
    /\ call = NoCall /\ ret = NoRet /\ queries = 0
    /\ http = <<>> /\ IdleRun /\ IdlePublish /\ IdleFuture /\ IdleDesc

NextServables ==
    \/ \E b \in BOOLEAN : get_servables(b)
    \/ \E o \in Owners, n \in Names : describe_servable(o, n)

SpecServables == InitServables /\ [][NextServables]_vars

\* search_by_servable against any index
InitSearch ==
    /\ index \in {S \in SUBSET Documents : Cardinality(S) <= MaxSearchDocs}
    /\ call = NoCall /\ ret = NoRet /\ queries = 0
    /\ http = <<>> /\ IdleRun /\ IdlePublish /\ IdleFuture /\ IdleDesc

NextSearch ==
    \E servable_name \in NameArgs, owner \in OwnerArgs, version \in VersionArgs,
       only_latest \in BOOLEAN, limit \in LimitArgs, info \in BOOLEAN :
        search_by_servable(servable_name, owner, version, only_latest, limit, info)

SpecSearch == InitSearch /\ [][NextSearch]_vars

\* calls of run, one after the other
InitRun == IdleSearch /\ http = <<>> /\ IdleRun /\ IdlePublish /\ IdleFuture /\ IdleDesc

NextRun ==
    \E name \in ServableNames, inputs \in RunInputs, input_type \in InputTypes :
        run(name, inputs, input_type)

SpecRun == InitRun /\ [][NextRun]_vars

\* calls of publish_servable, one after the other
InitPublish == IdleSearch /\ http = <<>> /\ IdleRun /\ IdlePublish /\ IdleFuture /\ IdleDesc

NextPublish ==
    \/ \E model \in Models : PublishValidate(model)
    \/ PublishMkstemp
    \/ PublishUnlink
    \/ PublishGetZipFile
    \/ PublishPost
    \/ PublishFinally

SpecPublish == InitPublish /\ [][NextPublish]_vars

\* a DLHubFuture for a remote task, under either behaviour of set_result
InitFuture ==
    /\ IdleSearch /\ http = <<>> /\ IdleRun /\ IdlePublish /\ IdleDesc
    /\ py38 \in BOOLEAN
    /\ futState = "NONE" /\ futOutcome = NoOutcome /\ task = NoTask
    /\ checkerPc = "none" /\ pollPc = "none" /\ pollStatus = NoStatus
    /\ stopRet = NoOutcome /\ caught = 0

NextFuture ==
    \/ DLHubFutureInit
    \/ CheckerThreadRun
    \/ TaskCompletes
    \/ set_running_or_notify_cancel
    \/ cancel
    \/ PingServerCall
    \/ PingSleep
    \/ RunningCheck
    \/ RunningGetStatus
    \/ PingExcept
    \/ RunningSetResult
    \/ stop

SpecFuture == InitFuture /\ [][NextFuture]_vars

\* a description model built by any sequence of builder calls
InitDesc == IdleSearch /\ http = <<>> /\ IdleRun /\ IdlePublish /\ IdleFuture /\ IdleDesc

NextDesc ==
    \/ \E kind \in ModelKinds : create_model(kind)
    \/ \E i, o \in {"tuple", "list"} : keras_create_model(i, o)
    \/ set_title("Python example")
    \/ set_name("class_method")
    \/ \E package \in {"numpy", "scikit-learn"} : add_requirement(package, "detect")
    \/ \E data_type \in InputArgTypes : set_inputs(data_type)
    \/ \E data_type \in OutputArgTypes : set_outputs(data_type)
    \/ set_unpack_inputs
    \/ to_dict

SpecDesc == InitDesc /\ [][NextDesc]_vars

----------------------------------------------------------------------------
(* Claims *)

\* the documents of the index with the owner and name of r
SameServable(docs, r) == {q \in docs : q.owner = r.owner /\ q.name = r.name}

Returned == {ret.docs[i] : i \in 1..Len(ret.docs)}

\* C1: get_servables(only_latest_version=True), when the index is within the
\* search limit, returns at most one entry per shorthand name, and that entry
\* has the greatest publication date of the documents with that shorthand name.
C1_LatestPerShorthandName ==
    (call.op = "get_servables" /\ call.only_latest /\ Cardinality(index) <= SEARCH_LIMIT) =>
        /\ ret.kind = "return"
        /\ \A i, j \in 1..Len(ret.docs) :
              i # j => ShorthandName(ret.docs[i]) # ShorthandName(ret.docs[j])
        /\ \A r \in index : \E e \in Returned : ShorthandName(e) = ShorthandName(r)
        /\ \A e \in Returned :
              /\ e \in index
              /\ \A r \in index :
                    ShorthandName(r) = ShorthandName(e) => r.publication_date <= e.publication_date

\* get_servables(True) answered an index holding an older and a newer version
\* of one servable beside another servable
C1_Witness ==
    /\ call.op = "get_servables" /\ call.only_latest /\ ret.kind = "return"
    /\ Cardinality(index) = 3
    /\ Len(ret.docs) = 2
    /\ \E r \in index : Cardinality(SameServable(index, r)) = 2

\* C7: describe_servable(owner, name) raises a not-found error (AttributeError)
\* exactly when no document of the index has that owner and name; otherwise it
\* returns the matching document with the greatest publication date.
C7_DescribeServable ==
    call.op = "describe_servable" =>
        LET matching == {r \in index : PyStr(r.owner) = call.owner
                                        /\ PyStr(r.name) = call.servable_name}
        IN  IF matching = {}
            THEN ret = Raise("AttributeError")
            ELSE /\ ret.kind = "return" /\ ret.shape = "doc"
                 /\ ret.docs[1] \in matching
                 /\ \A r \in matching : r.publication_date <= ret.docs[1].publication_date

\* describe_servable returned the newer of two versions
C7_WitnessFound ==
    /\ call.op = "describe_servable" /\ ret.kind = "return"
    /\ Cardinality(SameServable(index, ret.docs[1])) >= 2

\* an argument that is None or empty
NotProvided(x) == x.ty = "NoneType" \/ (x.ty = "str" /\ x.v = <<>>) \/ (x.ty = "int" /\ x.v = 0)

\* C8: search_by_servable raises ValueError exactly when none of servable_name,
\* owner and version is provided, and then no search query has been executed.
C8_ArgumentError ==
    call.op = "search_by_servable" =>
        /\ ret = Raise("ValueError") <=>
              (NotProvided(call.servable_name) /\ NotProvided(call.owner)
               /\ NotProvided(call.version))
        /\ ret = Raise("ValueError") => queries = 0

\* the call was refused for its arguments
C8_WitnessRefused ==
    /\ call.op = "search_by_servable" /\ ret = Raise("ValueError")
    /\ call.servable_name = PyStr(<<>>) /\ call.owner = PyNone /\ index # {}

\* C9: with only_latest=True the returned list holds, for every servable
\* (owner, name) among the matches, exactly one entry, the one with the
\* greatest publication date.
C9_OnlyLatest ==
    (call.op = "search_by_servable" /\ call.only_latest /\ ~call.info
     /\ ret # Raise("ValueError") /\ call.limit = PyNone
     /\ Cardinality(index) <= SEARCH_LIMIT) =>
        LET matches == MatchServable(index, call.servable_name, call.owner, call.version)
        IN  /\ ret.kind = "return"
            /\ \A i, j \in 1..Len(ret.docs) :
                  i # j => ~(ret.docs[i].owner = ret.docs[j].owner
                             /\ ret.docs[i].name = ret.docs[j].name)
            /\ \A r \in matches : \E e \in Returned : e.owner = r.owner /\ e.name = r.name
            /\ \A e \in Returned :
                  /\ e \in matches
                  /\ \A r \in SameServable(matches, e) : r.publication_date <= e.publication_date

\* C10: search_by_servable returns a list when info is False and a
\* (results, query information) pair when info is True, whatever only_latest is.
C10_ReturnShape ==
    (call.op = "search_by_servable" /\ ret # Raise("ValueError")) =>
        /\ ret.kind = "return"
        /\ ret.shape = (IF call.info THEN "pair" ELSE "list")

\* C6: run(name, inputs, input_type="files") raises NotImplementedError for every
\* name and inputs, and sends no request to the service.
C6_FilesNotImplemented ==
    runCall.input_type = "files" =>
        /\ runRet = RunRaise("NotImplementedError")
        /\ Len(http) = runCall.sent_before

\* run was called with input_type="files" after an earlier call had sent a request
C6_Witness ==
    /\ runCall.input_type = "files"
    /\ runRet.kind = "raise"
    /\ Len(http) = 1

\* C3: when a call of publish_servable that got a temporary archive path ends,
\* by returning a task id or by raising, the temporary archive does not exist.
C3_ArchiveRemoved ==
    (pubPc = "done" /\ pubCall.zip_filename # "") => pubCall.zip_filename \notin disk

\* a call ended with the failure of the request after the archive was written
C3_WitnessPostFailed ==
    /\ pubPc = "done" /\ pubCall.zip_filename # ""
    /\ pubRet = Raised("ConnectionError")
    /\ Len(http) > 0

\* C2: the background thread of a DLHubFuture polls the task status, and it
\* exits only once the remote status has reported completion and the future is
\* done with the result carried in the status payload.
C2_CheckerResolvesFuture ==
    (checkerPc = "exited" /\ stopRet = NoOutcome) =>
        /\ task.status = "COMPLETED"
        /\ futState = "FINISHED"
        /\ futOutcome = Returned_(task.result)
        /\ Len(http) > 0

\* C4 as stated: to_dict() raises ValueError unless both set_inputs and
\* set_outputs have been called before it, and returns the mapping once both
\* have been.
C4_ToDictNeedsSetters ==
    descRet.op = "to_dict" =>
        (descRet.kind = "raise" /\ descRet.exc = "ValueError")
            <=> ~(desc.set_inputs_called /\ desc.set_outputs_called)

\* C4 amended: for the Python class-method and static-method models to_dict()
\* raises ValueError unless both set_inputs and set_outputs have been called
\* before it; for a KerasModel, whose create_model sets the input and the
\* output from the loaded model, to_dict() returns the mapping without them.
C4_ToDictNeedsTypes ==
    descRet.op = "to_dict" =>
        IF desc.kind = "KerasModel"
        THEN descRet.kind = "return"
        ELSE (descRet.kind = "raise" /\ descRet.exc = "ValueError")
                <=> ~(desc.set_inputs_called /\ desc.set_outputs_called)

\* to_dict() failed on a Python model with a title, a name, a requirement and
\* the inputs set, the outputs still missing
C4_Witness ==
    /\ descRet.op = "to_dict" /\ descRet.kind = "raise"
    /\ desc.kind = "PythonClassMethodModel"
    /\ desc.title # "" /\ desc.name # "" /\ desc.requirements["numpy"] # ""
    /\ desc.set_inputs_called /\ ~desc.set_outputs_called

\* C5: set_unpack_inputs(True) raises ValueError and leaves the description
\* unchanged when the declared input type is not a tuple; when it is a tuple
\* the call succeeds and unpack = True is recorded.
C5_UnpackNeedsTuple ==
    descRet.op = "set_unpack_inputs" =>
        IF descRet.before.input # "tuple"
        THEN descRet.kind = "raise" /\ descRet.exc = "ValueError" /\ desc = descRet.before
        ELSE descRet.kind = "return" /\ desc.unpack = TRUE
             /\ desc = [descRet.before EXCEPT !.unpack = TRUE]

\* set_unpack_inputs(True) failed on a model whose input is a single ndarray
C5_WitnessRefused ==
    /\ descRet.op = "set_unpack_inputs" /\ descRet.kind = "raise"
    /\ desc.input = "ndarray" /\ desc.set_outputs_called

\* C11: publish_servable sends the publish request only for a description that
\* validated against the servable schema: a call whose validation fails raises
\* with no temporary archive created and no request sent.
C11_ValidatedBeforePublish ==
    /\ (pubPc = "done" /\ pubRet = Raised("ValidationError")) =>
          /\ pubCall.zip_filename = ""
          /\ pubCall.zip_filename \notin disk
          /\ Len(http) = pubCall.sent_before
    /\ (pubCall.zip_filename # "" \/ Len(http) > pubCall.sent_before) =>
          (pubCall.complete /\ pubCall.valid)

\* a call failed validation after an earlier call had published
C11_WitnessInvalid ==
    /\ pubPc = "done" /\ pubRet = Raised("ValidationError")
    /\ pubCount = 2 /\ Len(http) = 1

\* C12: a GlobusAPIError raised by a status query of _ping_server is swallowed:
\* the step that handles it leaves the future as it was and takes the loop back
\* to its sleep, and a later status block reporting COMPLETED still makes
\* running() resolve the future with the result of that block.
C12_ApiErrorSwallowed ==
    [][ /\ (pollPc = "except" /\ pollPc' # "except") =>
              /\ pollPc' = "sleep"
              /\ futState' = futState
              /\ futOutcome' = futOutcome
        /\ ( /\ caught > 0
             /\ pollPc = "check_status" /\ pollPc' # "check_status"
             /\ pollStatus.task = "COMPLETED"
             /\ futState = "RUNNING" ) =>
              /\ futState' = "FINISHED"
              /\ futOutcome' = Returned_(pollStatus.result) ]_vars

\* the first status query failed, the second one resolved the future
C12_WitnessResolvedLater ==
    /\ caught > 0 /\ stopRet = NoOutcome
    /\ pollPc = "returned"
    /\ futState = "FINISHED" /\ futOutcome = Returned_(task.result)

\* C13: stop() on a future that is neither cancelled nor finished only sets an
\* exception on it: the future becomes FINISHED holding 'Cancelled by user',
\* no request is sent and the remote task is left as it was.
C13_StopOnlyInjectsFailure ==
    [][ (futState \in {"PENDING", "RUNNING"} /\ stopRet' # stopRet) =>
            /\ futState' = "FINISHED"
            /\ futOutcome' = Raised("Cancelled by user")
            /\ stopRet' = Returned_("None")
            /\ http' = http
            /\ task' = task ]_vars

\* the future was stopped with no request sent, and the task went on to complete
C13_WitnessStopped ==
    /\ stopRet = Returned_("None")
    /\ futState = "FINISHED" /\ futOutcome = Raised("Cancelled by user")
    /\ http = <<>> /\ pollPc = "none"
    /\ task.status = "COMPLETED"

\* C14: the outcome of a DLHubFuture is set at most once: once the future is
\* FINISHED, no step of stop() or of the polling loop replaces the result or
\* exception it holds.
C14_OutcomeSetOnce ==
    [][ (futState = "FINISHED") =>
            (futState' = "FINISHED" /\ futOutcome' = futOutcome) ]_vars

\* C15: running() goes on to query the task status only when the future is
\* RUNNING, and a status request is sent only from there; on a future that is
\* pending, cancelled or done it sends no request, leaves the future as it
\* was and returns a falsy value, on which the loop of _ping_server ends.
C15_QueryOnlyWhenRunning ==
    [][ /\ (pollPc = "running" /\ pollPc' # "running") =>
              IF futState = "RUNNING"
              THEN pollPc' = "get_status"
              ELSE /\ pollPc' = "returned"
                   /\ http' = http
                   /\ futState' = futState
                   /\ futOutcome' = futOutcome
        /\ (http' # http) => pollPc = "get_status" ]_vars

\* running() was called on a pending future: the loop ended with no request sent
C15_WitnessPending ==
    /\ pollPc = "returned"
    /\ futState = "PENDING" /\ futOutcome = NoOutcome
    /\ http = <<>>

====
